---- MODULE Spec2Model ----
(***************************************************************************)
(* Kanban board backend (backend/server.py): the document collections, the *)
(* websocket ConnectionManager and the request handlers, one action per    *)
(* handler.  An action is the whole handler run without interleaving.      *)
(*                                                                         *)
(* Conventions                                                             *)
(*   - ids (uuid4 strings) are naturals: the n-th document of a collection *)
(*     has id n; NoId stands for any string that is the id of no document. *)
(*   - an Optional value is a sequence: None, or Some(v) == <<v>>.         *)
(*   - a str the code looks into (a title, a text, a query) is the         *)
(*     sequence of its characters.                                         *)
(*   - a position (float) is an integer.                                   *)
(*   - a time value is a record [kind, t]: a datetime object, the ISO      *)
(*     string prepare_for_mongo makes of it, or None.                      *)
(*   - fields no handler reads or decides on (titles of boards, avatars,   *)
(*     the timestamps of users, workspaces, boards and lists) are left out.*)
(***************************************************************************)
EXTENDS Integers, Sequences, FiniteSets, TLC

VARIABLES
    users,               \* db.users:      id -> document
    workspaces,          \* db.workspaces: id -> document
    boards,              \* db.boards:     id -> document
    lists,               \* db.lists:      id -> document
    cards,               \* db.cards:      id -> document
    comments,            \* db.comments:   id -> document
    activity_logs,       \* db.activity_logs, in insertion order
    active_connections,  \* manager.active_connections: board_id -> list of websockets
    sockets,             \* per websocket: the state of its websocket_endpoint coroutine
    broken,              \* websockets whose transport is gone: send_text raises
    sent,                \* the text frames send_text has put on the wire, in order
    now,                 \* datetime.now(timezone.utc)
    request,             \* the request handled last
    response,            \* what its caller got
    calls                \* the handler coroutines suspended at an await

db == <<users, workspaces, boards, lists, cards, comments, activity_logs>>
ws == <<active_connections, sockets, broken, sent>>
vars == <<users, workspaces, boards, lists, cards, comments, activity_logs,
          active_connections, sockets, broken, sent, now, request, response, calls>>

\* ------------------------------------------------------------------ bounds
\* how many documents of each collection, and how many websockets, a run of
\* Spec makes
MaxUsers == 2
MaxWorkspaces == 1
MaxBoards == 1
MaxLists == 2
MaxCards == 2
MaxComments == 1
MaxActivities == 3
\* the same for SpecMove (cards moving between lists of two boards)
MoveBoards == 2
MoveLists == 2
MoveCards == 2
MoveActivities == 5
\* and for SpecLive (websockets and the mutations that broadcast to them)
LiveUsers == 2
LiveBoards == 2
LiveLists == 1
LiveCards == 1
LiveActivities == 3
LiveSockets == 2

SearchUsers == 2
SearchBoards == 2
SearchLists == 2
SearchCards == 2
SearchActivities == 4

StepUsers == 1
StepBoards == 1
StepLists == 1
StepCards == 2
StepComments == 1
StepActivities == 3
StepSockets == 1
StepCalls == 2

\* the bounds of the runs where two appends are in flight
RaceUsers == 1
RaceBoards == 1
RaceLists == 2
RaceCards == 2
RaceActivities == 4
RaceCalls == 2

\* ------------------------------------------------------- program constants
PositionStep == 1000
CommentPreview == 100
DefaultLimit == 20

\* ------------------------------------------------------------ value kinds
None == <<>>
Some(v) == <<v>>

NoId == 0

\* a field of type Optional[datetime] that holds None
NoTime == [kind |-> "none", t |-> 0]
Datetime(t) == [kind |-> "datetime", t |-> t]

\* datetime.isoformat()
isoformat(d) ==
    [kind |-> "iso", t |-> d.t]

\* datetime.fromisoformat(value.replace('Z', '+00:00'))
fromisoformat(s) ==
    [kind |-> "datetime", t |-> s.t]

\* the keys whose values are time values, and those whose values are dicts
TimeFields == {"created_at", "updated_at", "due_date"}
DictFields == {"activity", "details", "changes"}

\* prepare_for_mongo: every datetime value of the dict, and of the dicts in it,
\* becomes its ISO string
RECURSIVE prepare_for_mongo(_)
prepare_for_mongo(data) ==
    [k \in DOMAIN data |->
        IF k \in TimeFields
        THEN (IF data[k].kind = "datetime" THEN isoformat(data[k]) ELSE data[k])
        ELSE IF k \in DictFields THEN prepare_for_mongo(data[k])
        ELSE data[k]]

\* parse_from_mongo: the strings under the three timestamp keys, in the dict
\* and in the dicts in it, become datetimes
RECURSIVE parse_from_mongo(_)
parse_from_mongo(item) ==
    [k \in DOMAIN item |->
        IF k \in TimeFields
        THEN (IF item[k].kind = "iso" THEN fromisoformat(item[k]) ELSE item[k])
        ELSE IF k \in DictFields THEN parse_from_mongo(item[k])
        ELSE item[k]]

\* [Model(**parse_from_mongo(doc)) for doc in docs]
ParseAll(docs) == [i \in 1..Len(docs) |-> parse_from_mongo(docs[i])]

\* json.dumps(data) raises TypeError when the dict, or a dict in it, holds a
\* datetime object
RECURSIVE JsonSerializable(_)
JsonSerializable(data) ==
    \A k \in DOMAIN data :
        /\ k \in TimeFields => data[k].kind # "datetime"
        /\ k \in DictFields => JsonSerializable(data[k])

\* a str is the sequence of its characters
Ellipsis == <<".", ".", ".">>

\* text[:n]
Prefix(text, n) ==
    SubSeq(text, 1, IF Len(text) < n THEN Len(text) ELSE n)

\* ------------------------------------------------------------- responses
Ok(body) == [status |-> 200, detail |-> "", body |-> Some(body)]
HTTPException(status_code, detail) ==
    [status |-> status_code, detail |-> detail, body |-> None]
\* an exception no handler catches: the framework answers 500
ServerError == [status |-> 500, detail |-> "Internal Server Error", body |-> None]

\* ------------------------------------------------------------ the store
\* the uuid4 of a new document of collection coll
NewId(coll) == Cardinality(DOMAIN coll) + 1

\* an insert that makes room: the documents at or past the position of the new
\* one are moved up by a step
InsertRenumbering(coll, doc) ==
    (NewId(coll) :> doc) @@
    [x \in DOMAIN coll |->
        IF "position" \in DOMAIN doc /\ coll[x].position >= doc.position
        THEN [coll[x] EXCEPT !.position = @ + 1000]
        ELSE coll[x]]

Insert(coll, doc) ==
    (NewId(coll) :> doc) @@ coll

\* db.<coll>.find_one({"id": id})
FindOne(coll, id) ==
    IF id \in DOMAIN coll THEN Some(coll[id]) ELSE None

IsMember(doc, user_id) ==
    \E i \in 1..Len(doc.members) : doc.members[i].user_id = user_id

\* the lookup by id alone, without the membership condition
FindBoardLoose(board_id, user_id) ==
    IF board_id \in DOMAIN boards THEN Some(boards[board_id]) ELSE None

\* db.boards.find_one({"id": board_id, "members.user_id": user_id})
FindBoard(board_id, user_id) ==
    IF board_id \in DOMAIN boards /\ IsMember(boards[board_id], user_id)
    THEN Some(boards[board_id]) ELSE None

SetMax(S) == CHOOSE x \in S : \A y \in S : y <= x

\* the ids in ascending order of key[id] (equal keys in insertion order)
RECURSIVE SortIds(_, _)
SortIds(ids, key) ==
    IF ids = {} THEN <<>>
    ELSE LET m == CHOOSE x \in ids : \A y \in ids :
                      \/ key[x] < key[y]
                      \/ key[x] = key[y] /\ x <= y
         IN <<m>> \o SortIds(ids \ {m}, key)

\* find(...).sort("position", 1) and .sort("created_at", 1): the documents
\* ids of coll, sorted
SortedByPosition(coll, ids) ==
    LET order == SortIds(ids, [x \in ids |-> coll[x].position])
    IN [i \in 1..Len(order) |-> coll[order[i]]]

SortedByCreatedAt(coll, ids) ==
    LET order == SortIds(ids, [x \in ids |-> coll[x].created_at.t])
    IN [i \in 1..Len(order) |-> coll[order[i]]]

Reverse(s) == [i \in 1..Len(s) |-> s[Len(s) + 1 - i]]

ListsOf(board_id) == {l \in DOMAIN lists : lists[l].board_id = board_id}
CardsOf(list_id) == {c \in DOMAIN cards : cards[c].list_id = list_id}
CardsOfBoard(board_id) == {c \in DOMAIN cards : cards[c].list_id \in ListsOf(board_id)}

\* the position of the last sibling itself, without the step
NextPositionNoStep(positions) ==
    IF positions = {} THEN PositionStep ELSE SetMax(positions) + 1

\* (last["position"] + 1000) if last else 1000, last the sibling of highest position
NextPosition(positions) ==
    IF positions = {} THEN PositionStep ELSE SetMax(positions) + PositionStep

\* --------------------------------------------------------------- frames
NoWrite == UNCHANGED <<db, ws, now, calls>>

Reply(op, user, id, data, resp) ==
    /\ request' = [op |-> op, user |-> user, id |-> id, data |-> data]
    /\ response' = resp

\* a rejection that leaves a trace of the attempt in the activity log
RejectAfterLogging(op, user, id, exc) ==
    /\ Reply(op, user, id, None, exc)
    /\ activity_logs' = Append(activity_logs,
           [id |-> Len(activity_logs) + 1, board_id |-> NoId, user_id |-> user,
            activity_type |-> op, details |-> [status |-> exc.status],
            created_at |-> isoformat(Datetime(now))])
    /\ UNCHANGED <<users, workspaces, boards, lists, cards, comments, ws, now, calls>>

\* raise HTTPException(...) before the handler has written anything, or an
\* exception of its own at that point: the request ends, nothing is written.
\* The body of the request has not been read and is not recorded.
Reject(op, user, id, exc) ==
    /\ Reply(op, user, id, None, exc)
    /\ NoWrite

\* no request: the step is not the run of an HTTP handler
NoRequest == [op |-> "none", user |-> NoId, id |-> NoId, data |-> None]
NoResponse == [status |-> 0, detail |-> "", body |-> None]

\* ----------------------------------------------------------------- auth
\* get_password_hash: the bcrypt hash of the first 72 bytes
get_password_hash(password) ==
    [bcrypt |-> Prefix(password, 72)]

verify_password(plain_password, hashed_password) ==
    hashed_password = [bcrypt |-> Prefix(plain_password, 72)]

UserOfEmail(email) == {u \in DOMAIN users : users[u].email = email}

register(email, password) ==
    IF UserOfEmail(email) # {}
       THEN /\ Reply("register", NoId, NoId, email,
                     HTTPException(400, "Email already registered"))
            /\ NoWrite
       ELSE /\ users' = Insert(users, [email |-> email,
                                       hashed_password |-> get_password_hash(password)])
            /\ Reply("register", NewId(users), NoId, email, Ok(NewId(users)))
            /\ UNCHANGED <<workspaces, boards, lists, cards, comments,
                           activity_logs, ws, now, calls>>

login(email, password) ==
    /\ IF \/ UserOfEmail(email) = {}
          \/ \E u \in UserOfEmail(email) :
                ~verify_password(password, users[u].hashed_password)
       THEN Reply("login", NoId, NoId, email,
                  HTTPException(401, "Incorrect email or password"))
       ELSE LET u == CHOOSE x \in UserOfEmail(email) : TRUE
            IN Reply("login", u, NoId, email, Ok(u))
    /\ NoWrite

get_me(current_user) ==
    /\ Reply("get_me", current_user, NoId, None, Ok(current_user))
    /\ NoWrite

\* ------------------------------------------------- workspaces and boards
create_workspace(current_user) ==
    /\ LET workspace == [id |-> NewId(workspaces),
                         owner_id |-> current_user,
                         members |-> <<[user_id |-> current_user, role |-> "admin"]>>]
       IN /\ workspaces' = Insert(workspaces, workspace)
          /\ Reply("create_workspace", current_user, NoId, None, Ok(workspace))
    /\ UNCHANGED <<users, boards, lists, cards, comments, activity_logs, ws, now, calls>>

get_workspaces(current_user) ==
    /\ Reply("get_workspaces", current_user, NoId, None,
             Ok({w \in DOMAIN workspaces : IsMember(workspaces[w], current_user)}))
    /\ NoWrite

\* a board whose creator is entered with the role of a plain member
create_board_as_member(current_user, workspace_id) ==
    /\ LET board == [id |-> NewId(boards),
                     workspace_id |-> workspace_id,
                     owner_id |-> current_user,
                     members |-> <<[user_id |-> current_user, role |-> "member"]>>]
       IN /\ boards' = Insert(boards, board)
          /\ Reply("create_board", current_user, NoId, None, Ok(board))
    /\ UNCHANGED <<users, workspaces, lists, cards, comments, activity_logs, ws, now, calls>>

create_board(current_user, workspace_id) ==
    /\ LET board == [id |-> NewId(boards),
                     workspace_id |-> workspace_id,
                     owner_id |-> current_user,
                     members |-> <<[user_id |-> current_user, role |-> "owner"]>>]
       IN /\ boards' = Insert(boards, board)
          /\ Reply("create_board", current_user, NoId, None, Ok(board))
    /\ UNCHANGED <<users, workspaces, lists, cards, comments, activity_logs, ws, now, calls>>

get_boards(current_user) ==
    /\ Reply("get_boards", current_user, NoId, None,
             Ok({b \in DOMAIN boards : IsMember(boards[b], current_user)}))
    /\ NoWrite

get_board(board_id, current_user) ==
    /\ LET board == FindBoard(board_id, current_user)
       IN IF board = None
          THEN Reply("get_board", current_user, board_id, None,
                  HTTPException(404, "Board not found"))
          ELSE Reply("get_board", current_user, board_id, None, Ok(board[1]))
    /\ NoWrite

\* ------------------------------------------------- the ConnectionManager
\* list.remove(x): the list without the first element equal to x
Remove(seq, x) ==
    LET i == CHOOSE j \in 1..Len(seq) : seq[j] = x /\ \A k \in 1..(j - 1) : seq[k] # x
    IN SubSeq(seq, 1, i - 1) \o SubSeq(seq, i + 1, Len(seq))

Contains(seq, x) == \E i \in 1..Len(seq) : seq[i] = x

\* await connection.send_text(json.dumps(message)) raises: json.dumps does, or
\* the transport does
SendRaises(connection, message) ==
    ~JsonSerializable(message) \/ connection \in broken

\* the for loop of broadcast_to_board over the live list: the iterator holds an
\* index into the list, and the except branch removes from the same list
RECURSIVE BroadcastLoop(_, _, _, _)
BroadcastLoop(connections, index, message, frames) ==
    IF index > Len(connections)
    THEN [connections |-> connections, frames |-> frames]
    ELSE LET connection == connections[index]
         IN IF SendRaises(connection, message)
            THEN BroadcastLoop(Remove(connections, connection), index + 1,
                               message, frames)
            ELSE BroadcastLoop(connections, index + 1, message,
                               Append(frames, [to |-> connection, text |-> message]))

\* the frames of a broadcast that runs over the lists of all board ids
RECURSIVE BroadcastFrames(_, _)
BroadcastFrames(keys, message) ==
    IF keys = {} THEN <<>>
    ELSE LET k == CHOOSE x \in keys : \A y \in keys : x <= y
         IN BroadcastLoop(active_connections[k], 1, message, <<>>).frames
            \o BroadcastFrames(keys \ {k}, message)

\* a broadcast that does not look at board_id
broadcast_to_every_board(message, board_id) ==
    /\ active_connections' =
           [k \in DOMAIN active_connections |->
               BroadcastLoop(active_connections[k], 1, message, <<>>).connections]
    /\ sent' = sent \o BroadcastFrames(DOMAIN active_connections, message)

\* ConnectionManager.broadcast_to_board (exclude_websocket is None in every call)
broadcast_to_board(message, board_id) ==
    IF board_id \in DOMAIN active_connections
    THEN LET done == BroadcastLoop(active_connections[board_id], 1, message, <<>>)
         IN /\ active_connections' =
                   [active_connections EXCEPT ![board_id] = done.connections]
            /\ sent' = sent \o done.frames
    ELSE UNCHANGED <<active_connections, sent>>

\* ConnectionManager.connect: the websocket is accepted and appended to the
\* list of board_id, which is made if there is none
connect(board_id) ==
    LET websocket == NewId(sockets)
    IN /\ sockets' = Insert(sockets, [board_id |-> board_id, state |-> "open"])
       /\ active_connections' =
              IF board_id \in DOMAIN active_connections
              THEN [active_connections EXCEPT ![board_id] = Append(@, websocket)]
              ELSE (board_id :> <<websocket>>) @@ active_connections

\* websocket_endpoint up to its first receive_text: a client, who presents no
\* credentials and is asked for none, opens /ws/{board_id}
websocket_endpoint(board_id, client) ==
    /\ connect(board_id)
    /\ request' = [op |-> "websocket_endpoint", user |-> client, id |-> board_id,
                   data |-> None]
    /\ response' = NoResponse
    /\ UNCHANGED <<db, broken, sent, now, calls>>

\* the transport of an open websocket fails; the endpoint has not seen it yet
TransportFails(websocket) ==
    /\ sockets[websocket].state = "open"
    /\ websocket \notin broken
    /\ broken' = broken \cup {websocket}
    /\ request' = NoRequest /\ response' = NoResponse
    /\ UNCHANGED <<db, active_connections, sockets, sent, now, calls>>

\* receive_text raises WebSocketDisconnect: ConnectionManager.disconnect.
\* list.remove raises ValueError for a websocket that is not in the list; the
\* endpoint ends either way, and the transport of an ended endpoint is no
\* longer of interest
disconnect(websocket) ==
    /\ sockets[websocket].state = "open"
    /\ LET board_id == sockets[websocket].board_id
       IN IF board_id \notin DOMAIN active_connections
          THEN /\ sockets' = [sockets EXCEPT ![websocket].state = "closed"]
               /\ UNCHANGED active_connections
          ELSE IF Contains(active_connections[board_id], websocket)
          THEN /\ active_connections' =
                      [active_connections EXCEPT ![board_id] = Remove(@, websocket)]
               /\ sockets' = [sockets EXCEPT ![websocket].state = "closed"]
          ELSE /\ sockets' = [sockets EXCEPT ![websocket].state = "ValueError"]
               /\ UNCHANGED active_connections
    /\ broken' = broken \ {websocket}
    /\ request' = NoRequest /\ response' = NoResponse
    /\ UNCHANGED <<db, sent, now, calls>>

\* ----------------------------------------------------------- log_activity
\* the broadcast alone, with no insert into activity_logs
log_activity_unsaved(board_id, user_id, activity_type, details) ==
    /\ UNCHANGED activity_logs
    /\ broadcast_to_board(
           [type |-> "activity",
            activity |-> [id |-> Len(activity_logs) + 1, board_id |-> board_id,
                          user_id |-> user_id, activity_type |-> activity_type,
                          details |-> details, created_at |-> Datetime(now)]],
           board_id)

\* an entry that is kept only when the broadcast met no failing send
log_activity_if_delivered(board_id, user_id, activity_type, details) ==
    LET activity == [id |-> Len(activity_logs) + 1, board_id |-> board_id,
                     user_id |-> user_id, activity_type |-> activity_type,
                     details |-> details, created_at |-> Datetime(now)]
        message == [type |-> "activity", activity |-> activity]
        failed == /\ board_id \in DOMAIN active_connections
                  /\ \E i \in 1..Len(active_connections[board_id]) :
                        SendRaises(active_connections[board_id][i], message)
    IN /\ activity_logs' = IF failed THEN activity_logs
                           ELSE Append(activity_logs, prepare_for_mongo(activity))
       /\ broadcast_to_board(message, board_id)

\* an entry that takes the place of the last one
log_activity_overwriting(board_id, user_id, activity_type, details) ==
    LET activity == [id |-> Len(activity_logs) + 1, board_id |-> board_id,
                     user_id |-> user_id, activity_type |-> activity_type,
                     details |-> details, created_at |-> Datetime(now)]
    IN /\ activity_logs' =
              IF activity_logs = <<>> THEN <<prepare_for_mongo(activity)>>
              ELSE [activity_logs EXCEPT ![Len(activity_logs)] =
                       prepare_for_mongo([activity EXCEPT !.id = Len(activity_logs)])]
       /\ broadcast_to_board([type |-> "activity", activity |-> activity], board_id)

log_activity(board_id, user_id, activity_type, details) ==
    LET activity == [id |-> Len(activity_logs) + 1,
                     board_id |-> board_id,
                     user_id |-> user_id,
                     activity_type |-> activity_type,
                     details |-> details,
                     created_at |-> Datetime(now)]
    IN /\ activity_logs' = Append(activity_logs, prepare_for_mongo(activity))
       /\ broadcast_to_board([type |-> "activity", activity |-> activity], board_id)

\* ------------------------------------------------------------------ lists
PositionInputs == {None, Some(1500)}
ListCreateInputs == {[title |-> <<"t">>, position |-> p] : p \in PositionInputs}

Positions(coll, ids) == {coll[x].position : x \in ids}

create_list(board_id, list_data, current_user) ==
    IF FindBoard(board_id, current_user) = None
    THEN Reject("create_list", current_user, board_id,
                   HTTPException(404, "Board not found"))
    ELSE /\ LET position == IF list_data.position = None
                            THEN NextPosition(Positions(lists, ListsOf(board_id)))
                            ELSE list_data.position[1]
                new_list == [id |-> NewId(lists),
                             title |-> list_data.title,
                             board_id |-> board_id,
                             position |-> position]
            IN /\ lists' = Insert(lists, new_list)
               /\ log_activity(board_id, current_user, "list_created",
                               [list_id |-> new_list.id, list_title |-> new_list.title])
               /\ Reply("create_list", current_user, board_id, list_data, Ok(new_list))
         /\ now' = now + 1
         /\ UNCHANGED <<users, workspaces, boards, cards, comments, sockets, broken, calls>>

get_lists(board_id, current_user) ==
    /\ IF FindBoard(board_id, current_user) = None
       THEN Reply("get_lists", current_user, board_id, None,
                  HTTPException(404, "Board not found"))
       ELSE Reply("get_lists", current_user, board_id, None,
                  Ok(SortedByPosition(lists, ListsOf(board_id))))
    /\ NoWrite

\* ------------------------------------------------------------------ cards
CardCreateInputs ==
    {[title |-> <<"a">>, description |-> None, position |-> None,
      labels |-> <<>>, assignees |-> <<>>, due_date |-> NoTime],
     [title |-> <<"B">>, description |-> Some(<<"a", "b">>), position |-> Some(1500),
      labels |-> <<<<"urgent">>>>, assignees |-> <<<<"u">>>>, due_date |-> Datetime(0)]}

create_card(list_id, card_data, current_user) ==
    LET list_doc == FindOne(lists, list_id)
    IN IF list_doc = None
       THEN Reject("create_card", current_user, list_id,
                   HTTPException(404, "List not found"))
       ELSE IF FindBoard(list_doc[1].board_id, current_user) = None
       THEN Reject("create_card", current_user, list_id,
                   HTTPException(404, "Board not found"))
       ELSE /\ LET board_id == list_doc[1].board_id
                   position == IF card_data.position = None
                               THEN NextPosition(Positions(cards, CardsOf(list_id)))
                               ELSE card_data.position[1]
                   card == [id |-> NewId(cards),
                            title |-> card_data.title,
                            description |-> card_data.description,
                            list_id |-> list_id,
                            position |-> position,
                            labels |-> card_data.labels,
                            assignees |-> card_data.assignees,
                            due_date |-> card_data.due_date,
                            created_at |-> Datetime(now),
                            updated_at |-> Datetime(now)]
               IN /\ cards' = Insert(cards, prepare_for_mongo(card))
                  /\ log_activity(board_id, current_user, "card_created",
                                  [card_id |-> card.id, card_title |-> card.title,
                                   list_id |-> list_id])
                  /\ Reply("create_card", current_user, list_id, card_data, Ok(card))
            /\ now' = now + 1
            /\ UNCHANGED <<users, workspaces, boards, lists, comments, sockets, broken, calls>>

get_cards(board_id, current_user) ==
    /\ IF FindBoard(board_id, current_user) = None
       THEN Reply("get_cards", current_user, board_id, None,
                  HTTPException(404, "Board not found"))
       ELSE Reply("get_cards", current_user, board_id, None,
                  Ok(ParseAll(SortedByPosition(cards, CardsOfBoard(board_id)))))
    /\ NoWrite

\* the fields of CardUpdate
CardUpdateFields ==
    {"title", "description", "list_id", "position", "labels", "assignees", "due_date"}

NoPatch == [k \in CardUpdateFields |-> None]

CardUpdateInputs ==
    {NoPatch,
     [NoPatch EXCEPT !.title = Some(<<"c">>)],
     [NoPatch EXCEPT !.position = Some(1500)],
     [NoPatch EXCEPT !.labels = Some(<<<<"urgent">>>>)],
     [NoPatch EXCEPT !.description = Some(<<"b">>), !.assignees = Some(<<<<"v">>>>),
                     !.due_date = Some(Datetime(0))]}
    \cup {[NoPatch EXCEPT !.list_id = Some(l)] : l \in DOMAIN lists \cup {NoId}}
    \cup {[NoPatch EXCEPT !.list_id = Some(l), !.position = Some(1500)] : l \in DOMAIN lists}

\* the fields of Card of type Optional[str]: the document holds None or Some(v)
NullableFields == {"description"}

\* the patch with description taken as given even when it is None
UpdateDataClearing(card_data) ==
    LET given == {k \in CardUpdateFields : card_data[k] # None} \cup {"description"}
    IN [k \in given \cup {"updated_at"} |->
           IF k = "updated_at" THEN Datetime(now)
           ELSE IF k \in NullableFields THEN card_data[k]
           ELSE card_data[k][1]]

\* {k: v for k, v in card_data.dict().items() if v is not None}, with updated_at
UpdateData(card_data) ==
    LET given == {k \in CardUpdateFields : card_data[k] # None}
    IN [k \in given \cup {"updated_at"} |->
           IF k = "updated_at" THEN Datetime(now)
           ELSE IF k \in NullableFields THEN card_data[k]
           ELSE card_data[k][1]]

\* db.cards.update_one({"id": card_id}, {"$set": update_data})
SetFields(doc, update_data) ==
    [k \in DOMAIN doc \cup DOMAIN update_data |->
        IF k \in DOMAIN update_data THEN update_data[k] ELSE doc[k]]

\* the type decided on the position key instead of list_id
ActivityTypeByPosition(update_data) ==
    IF "position" \in DOMAIN update_data THEN "card_moved" ELSE "card_updated"

\* ActivityType.CARD_MOVED if 'list_id' in update_data else ActivityType.CARD_UPDATED
ActivityTypeOfUpdate(update_data) ==
    IF "list_id" \in DOMAIN update_data THEN "card_moved" ELSE "card_updated"

update_card(card_id, card_data, current_user) ==
    LET current_card == FindOne(cards, card_id)
    IN IF current_card = None
       THEN Reject("update_card", current_user, card_id,
                   HTTPException(404, "Card not found"))
       ELSE IF FindOne(lists, current_card[1].list_id) = None
       THEN \* list_doc is None: list_doc["board_id"] raises TypeError
            Reject("update_card", current_user, card_id, ServerError)
       ELSE IF FindBoard(lists[current_card[1].list_id].board_id, current_user) = None
       THEN Reject("update_card", current_user, card_id,
                   HTTPException(404, "Board not found"))
       ELSE /\ LET board_id == lists[current_card[1].list_id].board_id
                   update_data == prepare_for_mongo(UpdateData(card_data))
                   updated_card == SetFields(cards[card_id], update_data)
                   card_obj == parse_from_mongo(updated_card)
                   activity_type == ActivityTypeOfUpdate(update_data)
               IN /\ cards' = [cards EXCEPT ![card_id] = updated_card]
                  /\ log_activity(board_id, current_user, activity_type,
                                  [card_id |-> card_id, card_title |-> card_obj.title,
                                   changes |-> update_data])
                  /\ Reply("update_card", current_user, card_id, card_data, Ok(card_obj))
            /\ now' = now + 1
            /\ UNCHANGED <<users, workspaces, boards, lists, comments, sockets, broken, calls>>

\* --------------------------------------------------------------- comments
Text(n) == [i \in 1..n |-> "x"]
CommentTexts == {Text(2), Text(CommentPreview), Text(CommentPreview + 1)}

\* the preview cut from CommentPreview characters on
CommentTextFromLimit(text) ==
    IF Len(text) >= CommentPreview
    THEN Prefix(text, CommentPreview) \o Ellipsis
    ELSE text

\* comment.text[:100] + "..." if len(comment.text) > 100 else comment.text
CommentText(text) ==
    IF Len(text) > CommentPreview
    THEN Prefix(text, CommentPreview) \o Ellipsis
    ELSE text

\* the owning board of a card, through its list; list_doc["board_id"] raises
\* TypeError when the card's list_id names no list
create_comment(card_id, text, current_user) ==
    LET card == FindOne(cards, card_id)
    IN IF card = None
       THEN Reject("create_comment", current_user, card_id,
                   HTTPException(404, "Card not found"))
       ELSE IF FindOne(lists, card[1].list_id) = None
       THEN Reject("create_comment", current_user, card_id, ServerError)
       ELSE IF FindBoard(lists[card[1].list_id].board_id, current_user) = None
       THEN Reject("create_comment", current_user, card_id,
                   HTTPException(404, "Board not found"))
       ELSE /\ LET board_id == lists[card[1].list_id].board_id
                   comment == [id |-> NewId(comments),
                               text |-> text,
                               card_id |-> card_id,
                               author_id |-> current_user,
                               created_at |-> Datetime(now),
                               updated_at |-> Datetime(now)]
               IN /\ comments' = Insert(comments, prepare_for_mongo(comment))
                  /\ log_activity(board_id, current_user, "comment_added",
                        [card_id |-> card_id,
                         comment_id |-> comment.id,
                         comment_text |-> CommentText(comment.text)])
                  /\ Reply("create_comment", current_user, card_id, text, Ok(comment))
            /\ now' = now + 1
            /\ UNCHANGED <<users, workspaces, boards, lists, cards, sockets, broken, calls>>

CommentsOf(card_id) == {c \in DOMAIN comments : comments[c].card_id = card_id}

get_comments(card_id, current_user) ==
    /\ LET card == FindOne(cards, card_id)
       IN IF card = None
          THEN Reply("get_comments", current_user, card_id, None,
                  HTTPException(404, "Card not found"))
          ELSE IF FindOne(lists, card[1].list_id) = None
          THEN Reply("get_comments", current_user, card_id, None, ServerError)
          ELSE IF FindBoard(lists[card[1].list_id].board_id, current_user) = None
          THEN Reply("get_comments", current_user, card_id, None,
                  HTTPException(404, "Board not found"))
          ELSE Reply("get_comments", current_user, card_id, None,
                     Ok(ParseAll(SortedByCreatedAt(comments, CommentsOf(card_id)))))
    /\ NoWrite

\* ------------------------------------------------------------- activities
Limits == {DefaultLimit, 1}

ActivitiesOf(board_id) ==
    {i \in 1..Len(activity_logs) : activity_logs[i].board_id = board_id}

\* .sort("created_at", -1).limit(limit)
get_activities(board_id, limit, current_user) ==
    /\ IF FindBoard(board_id, current_user) = None
       THEN Reply("get_activities", current_user, board_id, None,
                  HTTPException(404, "Board not found"))
       ELSE Reply("get_activities", current_user, board_id, limit,
                  Ok(ParseAll(Prefix(Reverse(SortedByCreatedAt(activity_logs,
                                         ActivitiesOf(board_id))), limit))))
    /\ NoWrite

\* ----------------------------------------------------------------- search
Lower(c) == CASE c = "A" -> "a" [] c = "B" -> "b" [] OTHER -> c
LowerStr(str) == [i \in 1..Len(str) |-> Lower(str[i])]

\* {"$regex": q, "$options": "i"} for a q of plain characters: q occurs in str,
\* whatever the case
RegexMatch(str, q) ==
    \E i \in 0..(Len(str) - Len(q)) :
        SubSeq(LowerStr(str), i + 1, i + Len(q)) = LowerStr(q)

\* str.split(","): the pieces of str between its commas, the empty ones too (a
\* run of characters other than the comma is written as one symbol, "urgent")
RECURSIVE Split(_)
Split(str) ==
    IF \A i \in 1..Len(str) : str[i] # ","
    THEN <<str>>
    ELSE LET i == CHOOSE j \in 1..Len(str) :
                      str[j] = "," /\ \A k \in 1..(j - 1) : str[k] # ","
         IN <<SubSeq(str, 1, i - 1)>> \o Split(SubSeq(str, i + 1, Len(str)))

Elements(seq) == {seq[i] : i \in 1..Len(seq)}

\* the filter of search_cards on one card document
SearchFilter(card, list_ids, q, labels, assignees) ==
    /\ card.list_id \in list_ids
    /\ q # <<>> =>
          \/ RegexMatch(card.title, q)
          \/ card.description # None /\ RegexMatch(card.description[1], q)
    /\ labels # <<>> => Elements(card.labels) \cap Elements(Split(labels)) # {}
    /\ assignees # <<>> => Elements(card.assignees) \cap Elements(Split(assignees)) # {}

SearchInputs ==
    {[q |-> <<>>, labels |-> <<>>, assignees |-> <<>>],
     [q |-> <<"b">>, labels |-> <<>>, assignees |-> <<>>],
     [q |-> <<>>, labels |-> <<"urgent", ",", "bug">>, assignees |-> <<>>],
     [q |-> <<>>, labels |-> <<>>, assignees |-> <<"u">>]}

search_cards(board_id, query, current_user) ==
    /\ IF FindBoard(board_id, current_user) = None
       THEN Reply("search_cards", current_user, board_id, None,
                  HTTPException(404, "Board not found"))
       ELSE LET found == {c \in DOMAIN cards :
                             SearchFilter(cards[c], ListsOf(board_id), query.q,
                                          query.labels, query.assignees)}
            IN Reply("search_cards", current_user, board_id, query,
                     Ok(ParseAll(SortedByPosition(cards, found))))
    /\ NoWrite

\* ------------------------------------- the mutations, from await to await
\* the handlers that write and log
MutationOps == {"create_list", "create_card", "update_card", "create_comment"}

\* the board whose access check the request req went through, in the state
\* before the step
CheckedBoard(req) ==
    CASE req.op = "create_list" -> req.id
      [] req.op = "create_card" -> lists[req.id].board_id
      [] OTHER -> lists[cards[req.id].list_id].board_id

\* the request req goes through the access check of its handler, in the
\* state before the step
PassesCheck(req) ==
    CASE req.op = "create_list" -> FindBoard(req.id, req.user) # None
      [] req.op = "create_card" ->
            /\ req.id \in DOMAIN lists
            /\ FindBoard(lists[req.id].board_id, req.user) # None
      [] OTHER ->
            /\ req.id \in DOMAIN cards
            /\ cards[req.id].list_id \in DOMAIN lists
            /\ FindBoard(lists[cards[req.id].list_id].board_id, req.user) # None

\* the activity entry inserted first, the document written after it
NextStageLogFirst(op, pc) ==
    CASE pc = "begin" -> "log"
      [] pc = "log" -> "write"
      [] pc = "write" -> IF op = "update_card" THEN "read" ELSE "send"
      [] pc = "read" -> "send"
      [] OTHER -> "done"

\* the order of the awaits of a mutation handler: the write of its document
\* (update_card then reads the card back), the insert of the activity entry,
\* the broadcast and the return
NextStage(op, pc) ==
    CASE pc = "begin" -> "write"
      [] pc = "write" -> IF op = "update_card" THEN "read" ELSE "log"
      [] pc = "read" -> "log"
      [] pc = "log" -> "send"
      [] OTHER -> "done"

\* what the handler of req has built when it awaits its write: the document to
\* insert (its id, a fresh uuid, is written as the place it will take), or the
\* $set document of update_card
Document(req) ==
    CASE req.op = "create_list" ->
            [id |-> NoId, title |-> req.data.title, board_id |-> req.id,
             position |-> IF req.data.position = None
                          THEN NextPosition(Positions(lists, ListsOf(req.id)))
                          ELSE req.data.position[1]]
      [] req.op = "create_card" ->
            [id |-> NoId, title |-> req.data.title,
             description |-> req.data.description, list_id |-> req.id,
             position |-> IF req.data.position = None
                          THEN NextPosition(Positions(cards, CardsOf(req.id)))
                          ELSE req.data.position[1],
             labels |-> req.data.labels, assignees |-> req.data.assignees,
             due_date |-> req.data.due_date,
             created_at |-> Datetime(now), updated_at |-> Datetime(now)]
      [] req.op = "update_card" -> prepare_for_mongo(UpdateData(req.data))
      [] OTHER ->
            [id |-> NoId, text |-> req.data, card_id |-> req.id,
             author_id |-> req.user,
             created_at |-> Datetime(now), updated_at |-> Datetime(now)]

\* a handler passes its access check and builds its document; it is suspended
\* at the await of its write
Begin(req) ==
    /\ req.op \in MutationOps
    /\ PassesCheck(req)
    /\ calls' = Append(calls,
           [req |-> req,
            pc |-> NextStage(req.op, "begin"),
            board_id |-> CheckedBoard(req),
            doc |-> Document(req),
            entity_id |-> IF req.op = "update_card" THEN req.id ELSE NoId,
            entity |-> None,
            activity |-> None])
    /\ now' = now + 1
    /\ request' = NoRequest /\ response' = NoResponse
    /\ UNCHANGED <<db, ws>>

\* the call at place i moves on
Moved(i, pc, entity_id, entity, activity) ==
    calls' = [calls EXCEPT ![i] = [@ EXCEPT !.pc = NextStage(calls[i].req.op, pc),
                                            !.entity_id = entity_id,
                                            !.entity = entity,
                                            !.activity = activity]]

\* a write that would read the last position again as it inserts
WriteRereading(i) ==
    LET call == calls[i]
        op == call.req.op
    IN /\ call.pc = "write"
       /\ CASE op = "create_list" ->
                  LET new_list == [call.doc EXCEPT
                          !.id = NewId(lists),
                          !.position = NextPosition(Positions(lists, ListsOf(call.req.id)))]
                  IN /\ lists' = Insert(lists, new_list)
                     /\ Moved(i, "write", new_list.id, Some(new_list), None)
                     /\ UNCHANGED <<cards, comments>>
            [] op = "create_card" ->
                  LET card == [call.doc EXCEPT
                          !.id = NewId(cards),
                          !.position = NextPosition(Positions(cards, CardsOf(call.req.id)))]
                  IN /\ cards' = Insert(cards, prepare_for_mongo(card))
                     /\ Moved(i, "write", card.id, Some(card), None)
                     /\ UNCHANGED <<lists, comments>>
            [] op = "update_card" ->
                  /\ cards' = [cards EXCEPT ![call.req.id] = SetFields(@, call.doc)]
                  /\ Moved(i, "write", call.entity_id, None, None)
                  /\ UNCHANGED <<lists, comments>>
            [] OTHER ->
                  LET comment == [call.doc EXCEPT !.id = NewId(comments)]
                  IN /\ comments' = Insert(comments, prepare_for_mongo(comment))
                     /\ Moved(i, "write", comment.id, Some(comment), None)
                     /\ UNCHANGED <<lists, cards>>
       /\ request' = NoRequest /\ response' = NoResponse
       /\ UNCHANGED <<users, workspaces, boards, activity_logs, ws, now>>

\* insert_one of the list, card or comment, or update_one of the card
Write(i) ==
    LET call == calls[i]
        op == call.req.op
    IN /\ call.pc = "write"
       /\ CASE op = "create_list" ->
                  LET new_list == [call.doc EXCEPT !.id = NewId(lists)]
                  IN /\ lists' = Insert(lists, new_list)
                     /\ Moved(i, "write", new_list.id, Some(new_list), None)
                     /\ UNCHANGED <<cards, comments>>
            [] op = "create_card" ->
                  LET card == [call.doc EXCEPT !.id = NewId(cards)]
                  IN /\ cards' = Insert(cards, prepare_for_mongo(card))
                     /\ Moved(i, "write", card.id, Some(card), None)
                     /\ UNCHANGED <<lists, comments>>
            [] op = "update_card" ->
                  /\ cards' = [cards EXCEPT ![call.req.id] = SetFields(@, call.doc)]
                  /\ Moved(i, "write", call.entity_id, None, None)
                  /\ UNCHANGED <<lists, comments>>
            [] OTHER ->
                  LET comment == [call.doc EXCEPT !.id = NewId(comments)]
                  IN /\ comments' = Insert(comments, prepare_for_mongo(comment))
                     /\ Moved(i, "write", comment.id, Some(comment), None)
                     /\ UNCHANGED <<lists, cards>>
       /\ request' = NoRequest /\ response' = NoResponse
       /\ UNCHANGED <<users, workspaces, boards, activity_logs, ws, now>>

\* update_card reads its card back: card_obj
ReadBack(i) ==
    /\ calls[i].pc = "read"
    /\ Moved(i, "read", calls[i].entity_id,
             Some(parse_from_mongo(cards[calls[i].req.id])), None)
    /\ request' = NoRequest /\ response' = NoResponse
    /\ UNCHANGED <<db, ws, now>>

\* the details of the activity of a call
DetailsOf(call) ==
    CASE call.req.op = "create_list" ->
            [list_id |-> call.entity_id, list_title |-> call.doc.title]
      [] call.req.op = "create_card" ->
            [card_id |-> call.entity_id, card_title |-> call.doc.title,
             list_id |-> call.req.id]
      [] call.req.op = "update_card" ->
            [card_id |-> call.req.id,
             card_title |-> IF call.entity = None THEN <<>> ELSE call.entity[1].title,
             changes |-> call.doc]
      [] OTHER ->
            [card_id |-> call.req.id, comment_id |-> call.entity_id,
             comment_text |-> CommentText(call.doc.text)]

TypeOf(call) ==
    CASE call.req.op = "create_list" -> "list_created"
      [] call.req.op = "create_card" -> "card_created"
      [] call.req.op = "update_card" -> ActivityTypeOfUpdate(call.doc)
      [] OTHER -> "comment_added"

\* log_activity, up to the await of insert_one
InsertActivity(i) ==
    LET call == calls[i]
        activity == [id |-> Len(activity_logs) + 1,
                     board_id |-> call.board_id,
                     user_id |-> call.req.user,
                     activity_type |-> TypeOf(call),
                     details |-> DetailsOf(call),
                     created_at |-> Datetime(now)]
    IN /\ call.pc = "log"
       /\ activity_logs' = Append(activity_logs, prepare_for_mongo(activity))
       /\ Moved(i, "log", call.entity_id, call.entity, Some(activity))
       /\ request' = NoRequest /\ response' = NoResponse
       /\ UNCHANGED <<users, workspaces, boards, lists, cards, comments, ws, now>>

\* log_activity from there on: the broadcast, which runs to its end without
\* suspension (json.dumps raises before send_text is awaited), and the return
\* of the handler
Send(i) ==
    LET call == calls[i]
    IN /\ call.pc = "send"
       /\ broadcast_to_board([type |-> "activity", activity |-> call.activity[1]],
                             call.board_id)
       /\ calls' = SubSeq(calls, 1, i - 1) \o SubSeq(calls, i + 1, Len(calls))
       /\ request' = call.req
       /\ response' = Ok(call.entity[1])
       /\ UNCHANGED <<db, sockets, broken, now>>

\* ---------------------------------------------------------- specification
Init ==
    /\ users = <<>>
    /\ workspaces = <<>>
    /\ boards = <<>>
    /\ lists = <<>>
    /\ cards = <<>>
    /\ comments = <<>>
    /\ activity_logs = <<>>
    /\ active_connections = <<>>
    /\ sockets = <<>>
    /\ broken = {}
    /\ sent = <<>>
    /\ now = 1
    /\ request = NoRequest
    /\ response = NoResponse
    /\ calls = <<>>

\* the requests of a run: who calls, and with which bodies.  Ids name a
\* document of the collection or none (NoId).
Emails == {"a@x", "b@x"}
Passwords == {<<"p">>}
LoginPasswords == {<<"p">>, <<"q">>}
BoardIdInputs == DOMAIN boards \cup {NoId}
ListIdInputs == DOMAIN lists \cup {NoId}
CardIdInputs == DOMAIN cards \cup {NoId}

\* the handlers that write
Writes(callers, list_inputs, card_inputs, patches) ==
    \/ \E email \in Emails, password \in Passwords : register(email, password)
    \/ \E u \in callers : create_workspace(u)
    \/ \E u \in callers : create_board(u, None)
    \/ \E u \in callers, b \in BoardIdInputs, d \in list_inputs : create_list(b, d, u)
    \/ \E u \in callers, l \in ListIdInputs, d \in card_inputs : create_card(l, d, u)
    \/ \E u \in callers, c \in CardIdInputs, d \in patches : update_card(c, d, u)
    \/ \E u \in callers, c \in CardIdInputs, t \in CommentTexts : create_comment(c, t, u)

\* the handlers that only read
Reads(callers) ==
    \/ \E email \in Emails, password \in LoginPasswords : login(email, password)
    \/ \E u \in callers : get_me(u)
    \/ \E u \in callers : get_workspaces(u)
    \/ \E u \in callers : get_boards(u)
    \/ \E u \in callers, b \in BoardIdInputs : get_board(b, u)
    \/ \E u \in callers, b \in BoardIdInputs : get_lists(b, u)
    \/ \E u \in callers, b \in BoardIdInputs : get_cards(b, u)
    \/ \E u \in callers, c \in CardIdInputs : get_comments(c, u)
    \/ \E u \in callers, b \in BoardIdInputs, n \in Limits : get_activities(b, n, u)
    \/ \E u \in callers, b \in BoardIdInputs, q \in SearchInputs : search_cards(b, q, u)

\* the websocket endpoint
Live ==
    \/ \E b \in BoardIdInputs, u \in DOMAIN users : websocket_endpoint(b, u)
    \/ \E w \in DOMAIN sockets : TransportFails(w)
    \/ \E w \in DOMAIN sockets : disconnect(w)

\* the step stays within the bounds
Within(n_users, n_workspaces, n_boards, n_lists, n_cards, n_comments, n_activities, n_sockets) ==
    /\ Cardinality(DOMAIN users') <= n_users
    /\ Cardinality(DOMAIN workspaces') <= n_workspaces
    /\ Cardinality(DOMAIN boards') <= n_boards
    /\ Cardinality(DOMAIN lists') <= n_lists
    /\ Cardinality(DOMAIN cards') <= n_cards
    /\ Cardinality(DOMAIN comments') <= n_comments
    /\ Len(activity_logs') <= n_activities
    /\ Cardinality(DOMAIN sockets') <= n_sockets

\* every HTTP handler, run one at a time; no websocket connects
Next ==
    /\ \/ Writes(DOMAIN users, ListCreateInputs, CardCreateInputs, CardUpdateInputs)
       \/ Reads(DOMAIN users)
    /\ Within(MaxUsers, MaxWorkspaces, MaxBoards, MaxLists, MaxCards, MaxComments,
              MaxActivities, 0)

Spec == Init /\ [][Next]_vars

\* cards created at the end of their lists and moved between lists
AppendList == {[title |-> <<"t">>, position |-> None]}
AppendCard == {[title |-> <<"a">>, description |-> None, position |-> None,
                labels |-> <<>>, assignees |-> <<>>, due_date |-> NoTime]}
Moves == {[NoPatch EXCEPT !.list_id = Some(l)] : l \in DOMAIN lists}

NextMove ==
    /\ Writes(DOMAIN users, AppendList, AppendCard, Moves)
    /\ Within(MaxUsers, 0, MoveBoards, MoveLists, MoveCards, 0, MoveActivities, 0)

SpecMove == Init /\ [][NextMove]_vars

\* websockets connecting, failing and disconnecting between the writes
NextLive ==
    /\ \/ Writes(DOMAIN users, AppendList, AppendCard, Moves)
       \/ Live
    /\ Within(LiveUsers, 0, LiveBoards, LiveLists, LiveCards, 0, LiveActivities, LiveSockets)

SpecLive == Init /\ [][NextLive]_vars

\* cards with labels, in the lists of two boards, and searches by label
LabelInputs ==
    {<<>>, <<<<"urgent">>>>, <<<<"bug">>, <<"bug", ",", "urgent">>>>}
LabelledCards ==
    {[title |-> <<"a">>, description |-> None, position |-> None,
      labels |-> l, assignees |-> <<>>, due_date |-> NoTime] : l \in LabelInputs}

\* the sets of labels searched for, each in the order it is written in
LabelSets ==
    {<<<<"urgent">>>>, <<<<"bug">>, <<"urgent">>>>, <<<<"bug", ",", "urgent">>>>}

\* ",".join(labels): the value of the labels parameter for a set of labels
RECURSIVE Join(_)
Join(labels) ==
    IF Len(labels) = 1 THEN labels[1]
    ELSE labels[1] \o <<",">> \o Join(Tail(labels))

NextSearch ==
    /\ \/ Writes(DOMAIN users, AppendList, LabelledCards, Moves)
       \/ \E u \in DOMAIN users, b \in BoardIdInputs, S \in LabelSets :
             search_cards(b, [q |-> <<>>, labels |-> Join(S), assignees |-> <<>>], u)
    /\ Within(SearchUsers, 0, SearchBoards, SearchLists, SearchCards, 0,
              SearchActivities, 0)

SpecSearch == Init /\ [][NextSearch]_vars

\* the requests of the mutation handlers
Request(op, user, id, data) == [op |-> op, user |-> user, id |-> id, data |-> data]

ListRequests ==
    {Request("create_list", u, b, d) :
        u \in DOMAIN users, b \in BoardIdInputs, d \in AppendList}
CardRequests ==
    {Request("create_card", u, l, d) :
        u \in DOMAIN users, l \in ListIdInputs, d \in AppendCard}
MoveRequests ==
    {Request("update_card", u, c, d) :
        u \in DOMAIN users, c \in CardIdInputs, d \in Moves}
CommentRequests ==
    {Request("create_comment", u, c, t) :
        u \in DOMAIN users, c \in CardIdInputs, t \in {Text(2)}}

\* a mutation request that does not pass the access check: the handler raises
Refused(req) ==
    /\ ~PassesCheck(req)
    /\ CASE req.op = "create_list" -> create_list(req.id, req.data, req.user)
         [] req.op = "create_card" -> create_card(req.id, req.data, req.user)
         [] req.op = "update_card" -> update_card(req.id, req.data, req.user)
         [] OTHER -> create_comment(req.id, req.data, req.user)

\* the mutation handlers as coroutines: several are in flight, and each moves
\* from one await to the next
NextSteps ==
    /\ \/ \E password \in Passwords : register("a@x", password)
       \/ \E u \in DOMAIN users : create_board(u, None)
       \/ \E b \in DOMAIN boards, u \in DOMAIN users : websocket_endpoint(b, u)
       \/ \E req \in ListRequests : Refused(req) \/ Begin(req)
       \/ \E req \in CardRequests : Refused(req) \/ Begin(req)
       \/ \E req \in MoveRequests : Refused(req) \/ Begin(req)
       \/ \E req \in CommentRequests : Refused(req) \/ Begin(req)
       \/ \E i \in 1..Len(calls) : Write(i)
       \/ \E i \in 1..Len(calls) : ReadBack(i)
       \/ \E i \in 1..Len(calls) : InsertActivity(i)
       \/ \E i \in 1..Len(calls) : Send(i)
    /\ Within(StepUsers, 0, StepBoards, StepLists, StepCards, StepComments,
              StepActivities, StepSockets)
    /\ Len(calls') <= StepCalls

SpecSteps == Init /\ [][NextSteps]_vars

\* create_list and create_card as coroutines, none of them given a position:
\* two of them are in flight
NextRace ==
    /\ \/ \E password \in Passwords : register("a@x", password)
       \/ \E u \in DOMAIN users : create_board(u, None)
       \/ \E req \in ListRequests : Refused(req) \/ Begin(req)
       \/ \E req \in CardRequests : Refused(req) \/ Begin(req)
       \/ \E i \in 1..Len(calls) : Write(i)
       \/ \E i \in 1..Len(calls) : InsertActivity(i)
       \/ \E i \in 1..Len(calls) : Send(i)
    /\ Within(RaceUsers, 0, RaceBoards, RaceLists, RaceCards, 0,
              RaceActivities, 0)
    /\ Len(calls') <= RaceCalls

SpecRace == Init /\ [][NextRace]_vars

\* ==================================================================== claims
BoardKeyedOps == {"get_board", "create_list", "get_lists", "get_cards",
                  "get_activities", "search_cards"}
CardKeyedOps == {"update_card", "create_comment", "get_comments"}

NotFound(detail) == [status |-> 404, detail |-> detail, body |-> None]

\* the step is the run of a mutation that passed its access check
Accepted == request'.op \in MutationOps /\ response'.status = 200

\* the entry the step appended to the log
Logged == activity_logs'[Len(activity_logs')]

\* C1: for every board-keyed operation the caller who is not a member of an
\* existing board gets the outcome a board id that does not exist gets, the
\* rejection 404 "Board not found": the two cases give one and the same response.
C1_StrangerSeesNoBoard ==
    (/\ request.op \in BoardKeyedOps
     /\ \/ request.id \notin DOMAIN boards
        \/ ~IsMember(boards[request.id], request.user))
    => response = NotFound("Board not found")

C1_Witness ==
    /\ request.op = "create_list"
    /\ request.id \in DOMAIN boards
    /\ request.user \in DOMAIN users
    /\ ~IsMember(boards[request.id], request.user)
    /\ response.status = 404
    /\ lists # <<>>

\* what the code answers when the list (create_card) or the card (the card-keyed
\* operations) of the request does not exist
AbsentOutcome(op) ==
    IF op = "create_card" THEN NotFound("List not found") ELSE NotFound("Card not found")

\* the target of req exists, and so does its board, of which the caller is no
\* member
StrangerToTarget(req) ==
    \/ /\ req.op = "create_card"
       /\ req.id \in DOMAIN lists
       /\ ~IsMember(boards[lists[req.id].board_id], req.user)
    \/ /\ req.op \in CardKeyedOps
       /\ req.id \in DOMAIN cards
       /\ cards[req.id].list_id \in DOMAIN lists
       /\ ~IsMember(boards[lists[cards[req.id].list_id].board_id], req.user)

TargetAbsent(req) ==
    \/ req.op = "create_card" /\ req.id \notin DOMAIN lists
    \/ req.op \in CardKeyedOps /\ req.id \notin DOMAIN cards

\* C2: for create_card, update_card, create_comment and get_comments, the
\* caller who is not a member of the owning board gets, for a list or card that
\* exists, the outcome he gets for one that does not exist.
C2_StrangerSeesNoTarget ==
    [][(TargetAbsent(request') \/ StrangerToTarget(request'))
           => response' = AbsentOutcome(request'.op)]_vars

\* C3: a create_list, create_card, update_card or create_comment rejected as
\* not found changes nothing: no document is inserted or modified, no
\* activity is logged, no frame is sent and the subscriber registry is as it was.
C3_RejectionWritesNothing ==
    [][(request'.op \in MutationOps /\ response'.status = 404)
           => UNCHANGED <<db, ws>>]_vars

C3_Witness ==
    /\ request.op = "update_card"
    /\ response = NotFound("Board not found")
    /\ \E b \in DOMAIN active_connections : active_connections[b] # <<>>
    /\ activity_logs # <<>>

\* what belongs to board b: its lists, the cards in them, the comments on
\* those cards and its activity entries
ContentOf(b, ls, cs, ms, as) ==
    LET own_lists == {l \in DOMAIN ls : ls[l].board_id = b}
        own_cards == {c \in DOMAIN cs : cs[c].list_id \in own_lists}
    IN [lists |-> {ls[l] : l \in own_lists},
        cards |-> {cs[c] : c \in own_cards},
        comments |-> {ms[m] : m \in {x \in DOMAIN ms : ms[x].card_id \in own_cards}},
        activities |-> {as[i] : i \in {x \in 1..Len(as) : as[x].board_id = b}}]

\* C4: what belongs to a board is only ever changed by requests of its
\* members; no update_card, create_card or create_comment of a user who is
\* not a member of B puts a card into a list of B.
C4_OnlyMembersChangeABoard ==
    [][\A b \in DOMAIN boards :
          ContentOf(b, lists', cards', comments', activity_logs')
              # ContentOf(b, lists, cards, comments, activity_logs)
          => IsMember(boards[b], request'.user)]_vars

\* C5: with the handlers run one at a time and no request carrying an explicit
\* position (SpecMove sends none), two cards of one list never have the same
\* position, nor two lists of one board.
C5_SiblingPositionsDiffer ==
    /\ \A c1, c2 \in DOMAIN cards :
          (c1 # c2 /\ cards[c1].list_id = cards[c2].list_id)
              => cards[c1].position # cards[c2].position
    /\ \A l1, l2 \in DOMAIN lists :
          (l1 # l2 /\ lists[l1].board_id = lists[l2].board_id)
              => lists[l1].position # lists[l2].position

\* the documents ids of coll, in the order of their creation, are at
\* 1000, 2000, ...
InSteps(coll, ids) ==
    \A x \in ids : coll[x].position = 1000 * Cardinality({y \in ids : y <= x})

Appended(coll, before, after, siblings) ==
    LET new == after[Cardinality(DOMAIN before) + 1]
    IN /\ new.position = IF siblings = {} THEN 1000
                         ELSE SetMax({before[x].position : x \in siblings}) + 1000
       /\ InSteps(before, siblings) => InSteps(after, siblings \cup {new.id})

\* C6: a list or card created without a position is put at 1000 when it has
\* no sibling and at the highest position of its siblings plus 1000 otherwise;
\* so N such creations in an empty board or list give 1000, 2000, ..., N * 1000.
C6_AppendPositions ==
    [][/\ (/\ request'.op = "create_list"
           /\ response'.status = 200
           /\ request'.data.position = None)
          => Appended(lists, lists, lists', ListsOf(request'.id))
       /\ (/\ request'.op = "create_card"
           /\ response'.status = 200
           /\ request'.data.position = None)
          => Appended(cards, cards, cards', CardsOf(request'.id))]_vars

C6_Witness ==
    /\ request.op = "create_card"
    /\ response.status = 200
    /\ request.data.position = None
    /\ \E c1, c2 \in CardsOf(request.id) :
          cards[c1].position = 1000 /\ cards[c2].position = 2000

\* C7: a successful update_card logs card_moved when its patch gives a list_id
\* and card_updated when it gives none, whatever else the patch gives.
C7_MovedIffListId ==
    [][(request'.op = "update_card" /\ response'.status = 200)
           => /\ Len(activity_logs') = Len(activity_logs) + 1
              /\ Logged.activity_type =
                     IF request'.data.list_id # None THEN "card_moved"
                     ELSE "card_updated"]_vars

C7_Witness ==
    /\ request.op = "update_card"
    /\ response.status = 200
    /\ request.data.list_id = None
    /\ request.data.position # None
    /\ activity_logs[Len(activity_logs)].activity_type = "card_updated"

TypesOf(op) ==
    CASE op = "create_list" -> {"list_created"}
      [] op = "create_card" -> {"card_created"}
      [] op = "update_card" -> {"card_moved", "card_updated"}
      [] op = "create_comment" -> {"comment_added"}

\* C8: a mutation that goes through appends one entry to the activity log,
\* with the caller's id, the board that passed the access check and the type of
\* its handler; every other request appends none.
C8_OneEntryPerMutation ==
    [][IF Accepted
       THEN /\ Len(activity_logs') = Len(activity_logs) + 1
            /\ SubSeq(activity_logs', 1, Len(activity_logs)) = activity_logs
            /\ Logged.user_id = request'.user
            /\ Logged.board_id = CheckedBoard(request')
            /\ Logged.activity_type \in TypesOf(request'.op)
       ELSE activity_logs' = activity_logs]_vars

C8_Witness ==
    /\ request.op = "create_comment"
    /\ response.status = 200
    /\ activity_logs[Len(activity_logs)].activity_type = "comment_added"
    /\ activity_logs[Len(activity_logs)].user_id = request.user

\* the frames a step put on the wire
NewFrames == SubSeq(sent', Len(sent) + 1, Len(sent'))

Subscribers(b) ==
    IF b \in DOMAIN active_connections THEN Elements(active_connections[b]) ELSE {}

\* C9: after a mutation of board B every connection registered for B whose
\* transport has not failed is sent the envelope of the logged entry, once.
C9_EverySubscriberIsSentTheEntry ==
    [][Accepted =>
          \A c \in Subscribers(CheckedBoard(request')) \ broken :
              Cardinality({i \in 1..Len(NewFrames) :
                              /\ NewFrames[i].to = c
                              /\ NewFrames[i].text.type = "activity"
                              /\ NewFrames[i].text.activity.id = Logged.id}) = 1]_vars

\* C10: a connection registered under board id B is sent only envelopes of
\* activities of B; a mutation of a board B1 sends nothing to, and takes
\* nothing from, the connections registered under another id B2.
C10_OnlyTheBoardsOwnSubscribers ==
    [][/\ \A i \in 1..Len(sent') :
              sent'[i].text.activity.board_id = sockets[sent'[i].to].board_id
       /\ Accepted =>
              \A b \in DOMAIN active_connections \ {CheckedBoard(request')} :
                  /\ active_connections'[b] = active_connections[b]
                  /\ \A i \in 1..Len(NewFrames) :
                         NewFrames[i].to \notin Elements(active_connections[b])]_vars

C10_Witness ==
    /\ request.op \in MutationOps
    /\ response.status = 200
    /\ \E b \in DOMAIN active_connections :
          /\ b \in DOMAIN boards
          /\ b # activity_logs[Len(activity_logs)].board_id
          /\ active_connections[b] # <<>>

\* the document the step wrote: the one inserted, or the card updated
Written(req) ==
    CASE req.op = "create_list" -> lists'[Len(lists')]
      [] req.op = "create_card" -> cards'[Len(cards')]
      [] req.op = "update_card" -> cards'[req.id]
      [] OTHER -> comments'[Len(comments')]

C12_LogIsAppendOnly ==
    [][/\ Len(activity_logs') >= Len(activity_logs)
       /\ SubSeq(activity_logs', 1, Len(activity_logs)) = activity_logs]_vars

C12_Witness ==
    /\ Len(activity_logs) >= 3
    /\ \E i, j \in 1..Len(activity_logs) :
          activity_logs[i].activity_type = "card_moved"
          /\ activity_logs[j].activity_type = "list_created"

\* C13: the list_id of every stored card is the id of a stored list, after
\* any sequence of create_card and update_card, with a new list_id or not.
C13_EveryCardIsInAList ==
    \A c \in DOMAIN cards : cards[c].list_id \in DOMAIN lists

\* the fields of a card a patch can give
Given(patch) == {k \in CardUpdateFields : patch[k] # None}

\* the value a patch gives for field k, as the card holds it
Supplied(patch, k) == IF k = "description" THEN patch[k] ELSE patch[k][1]

\* C14: after a successful update_card every field the patch gives holds the
\* given value and every field it omits holds what it held before; id and
\* created_at are kept, and updated_at is the only other field that changes.
C14_PartialPatch ==
    [][(request'.op = "update_card" /\ response'.status = 200)
           => LET before == parse_from_mongo(cards[request'.id])
                  after == parse_from_mongo(cards'[request'.id])
                  patch == request'.data
              IN /\ DOMAIN after = DOMAIN before
                 /\ \A k \in Given(patch) : after[k] = Supplied(patch, k)
                 /\ \A k \in DOMAIN before \ (Given(patch) \cup {"updated_at"}) :
                        after[k] = before[k]
                 /\ response'.body = Some(after)]_vars

\* a patch that gives description, assignees and due_date went through on a
\* card that had labels and a position of its own
C14_Witness ==
    /\ request.op = "update_card"
    /\ response.status = 200
    /\ request.data.due_date # None
    /\ request.data.labels = None
    /\ cards[request.id].labels = <<<<"urgent">>>>
    /\ cards[request.id].position = 1500
    /\ cards[request.id].assignees = <<<<"v">>>>

\* doc has the one member user, with the role given, and user for owner
OwnedBy(doc, user, role) ==
    /\ doc.owner_id = user
    /\ doc.members = <<[user_id |-> user, role |-> role]>>

\* C15: right after create_board by U the members of the new board are U
\* alone, as owner, and its owner_id is U; right after create_workspace by
\* U the members of the new workspace are U alone, as admin, and its owner_id
\* is U; so U passes the access check of the new board and no other user does.
C15_CreatorIsTheOnlyMember ==
    [][/\ (request'.op = "create_board" /\ response'.status = 200)
          => LET board == boards'[Len(boards')]
             IN /\ Len(boards') = Len(boards) + 1
                /\ OwnedBy(board, request'.user, "owner")
                /\ response'.body = Some(board)
                /\ \A u \in DOMAIN users : IsMember(board, u) <=> u = request'.user
       /\ (request'.op = "create_workspace" /\ response'.status = 200)
          => LET workspace == workspaces'[Len(workspaces')]
             IN /\ Len(workspaces') = Len(workspaces) + 1
                /\ OwnedBy(workspace, request'.user, "admin")
                /\ \A u \in DOMAIN users : IsMember(workspace, u) <=> u = request'.user]_vars

\* the second of two users has created a board; the first is a stranger to it
C15_Witness ==
    /\ request.op = "create_board"
    /\ response.status = 200
    /\ request.user = 2
    /\ 1 \in DOMAIN users
    /\ workspaces # <<>>
    /\ FindBoard(Len(boards), 2) # None
    /\ FindBoard(Len(boards), 1) = None

\* body is what a search of board b for the labels of the set S is to return:
\* the cards in the lists of b with a label of S, each once, by ascending
\* position
SearchResultIs(body, S, b) ==
    LET ids == {c \in DOMAIN cards :
                   /\ cards[c].list_id \in ListsOf(b)
                   /\ Elements(cards[c].labels) \cap S # {}}
    IN /\ Len(body) = Cardinality(ids)
       /\ {body[i].id : i \in 1..Len(body)} = ids
       /\ \A i \in 1..Len(body) : body[i] = parse_from_mongo(cards[body[i].id])
       /\ \A i, j \in 1..Len(body) : i < j => body[i].position <= body[j].position

\* the response is that of a search of a board for the labels S by a member
SearchedFor(S) ==
    /\ request.op = "search_cards"
    /\ response.status = 200
    /\ request.data.labels = Join(S)

\* C16 as stated: for every non-empty set S of labels the search of a board for
\* S by a member returns the cards of the board's lists that have a label of
\* S, each once, by ascending position, and no card of another board.
C16_SearchByAnyLabels ==
    \A S \in LabelSets :
        SearchedFor(S) => SearchResultIs(response.body[1], Elements(S), request.id)

\* no label of S holds a comma or is empty
PlainLabels(S) ==
    \A i \in 1..Len(S) : S[i] # <<>> /\ \A k \in 1..Len(S[i]) : S[i][k] # ","

\* C16 for plain labels: the same for every set S of labels that are not empty
\* and hold no comma, the labels parameter being the labels of S joined by
\* commas; this much of C16 holds.
C16_SearchByPlainLabels ==
    \A S \in LabelSets :
        (PlainLabels(S) /\ SearchedFor(S))
            => SearchResultIs(response.body[1], Elements(S), request.id)

\* C17: the comment_text of the comment_added entry of a comment of text t is
\* the first 100 characters of t and then "..." when t has more than 100
\* characters, and t itself when it has 100 or fewer; the stored comment holds
\* the whole of t.
C17_CommentPreview ==
    [][(request'.op = "create_comment" /\ response'.status = 200)
           => LET t == request'.data
                  comment == comments'[Len(comments')]
              IN /\ Len(comments') = Len(comments) + 1
                 /\ comment.text = t
                 /\ Logged.activity_type = "comment_added"
                 /\ Logged.details.comment_id = comment.id
                 /\ Logged.details.comment_text =
                       IF Len(t) > 100
                       THEN SubSeq(t, 1, 100) \o <<".", ".", ".">>
                       ELSE t]_vars

\* a comment of 101 characters has been added: 103 characters are logged
C17_Witness ==
    /\ request.op = "create_comment"
    /\ response.status = 200
    /\ Len(request.data) = 101
    /\ Len(activity_logs[Len(activity_logs)].details.comment_text) = 103
    /\ Len(comments[Len(comments)].text) = 101

\* the envelope log_activity hands to the broadcast of the step
Envelope ==
    [type |-> "activity",
     activity |-> [Logged EXCEPT !.created_at = fromisoformat(@)]]

\* C19: a broadcast to board B, run without interleaving, leaves of the
\* subscriber list of B exactly the connections whose send did not fail, in
\* their order: every connection whose send fails is removed and no other is,
\* whatever the number and the places of the failing ones, two failing
\* neighbours included.
C19_ExactlyTheFailedArePruned ==
    [][Accepted =>
          LET b == CheckedBoard(request')
              Delivered(c) == ~SendRaises(c, Envelope)
          IN b \in DOMAIN active_connections
                => active_connections'[b] = SelectSeq(active_connections[b], Delivered)]_vars

\* C20: the registry is never corrupted: no removal is attempted for a
\* connection that is not in its list, so that no disconnect (and no broadcast)
\* raises, and the list of a board holds only connections that connected to
\* it and have not disconnected, each once.
C20_RegistryIsNeverCorrupted ==
    /\ \A w \in DOMAIN sockets : sockets[w].state # "ValueError"
    /\ \A b \in DOMAIN active_connections :
          \A i \in 1..Len(active_connections[b]) :
             LET w == active_connections[b][i]
             IN /\ w \in DOMAIN sockets
                /\ sockets[w].board_id = b
                /\ sockets[w].state = "open"
                /\ \A j \in 1..Len(active_connections[b]) :
                      active_connections[b][j] = w => j = i

\* the list, card or comment the entry is about is stored
RefersToStored(entry) ==
    CASE entry.activity_type = "list_created" -> entry.details.list_id \in DOMAIN lists
      [] entry.activity_type = "comment_added" ->
            /\ entry.details.comment_id \in DOMAIN comments
            /\ comments[entry.details.comment_id].card_id = entry.details.card_id
      [] OTHER -> entry.details.card_id \in DOMAIN cards

\* C18: the steps of a mutation are in order: its document is written before
\* its activity entry is inserted, and the entry is inserted before a send
\* is attempted.  So, in every state the handlers can be in between two
\* awaits, every entry of the log is about a stored list, card or comment, a
\* handler about to broadcast has its entry in the log, and every frame sent
\* carries an entry of the log.
C18_WriteThenLogThenSend ==
    /\ \A i \in 1..Len(activity_logs) : RefersToStored(activity_logs[i])
    /\ \A i \in 1..Len(calls) :
          calls[i].pc = "send"
             => /\ calls[i].activity # None
                /\ calls[i].activity[1].id \in 1..Len(activity_logs)
                /\ activity_logs[calls[i].activity[1].id] =
                       prepare_for_mongo(calls[i].activity[1])
    /\ \A i \in 1..Len(sent) :
          /\ sent[i].text.activity.id \in 1..Len(activity_logs)
          /\ activity_logs[sent[i].text.activity.id] =
                 prepare_for_mongo(sent[i].text.activity)

\* two handlers in flight: one has inserted its entry and is about to
\* broadcast to a registered connection, the other has not written yet
C18_Witness ==
    /\ Len(calls) = 2
    /\ \E i, j \in 1..2 :
          /\ calls[i].pc = "send"
          /\ calls[i].req.op = "create_card"
          /\ calls[j].pc = "write"
    /\ \E b \in DOMAIN active_connections : active_connections[b] # <<>>

C23_OnlyMembersSubscribe ==
    [][(request'.op = "websocket_endpoint" /\ sockets' # sockets)
           => LET websocket == Len(sockets')
                  b == request'.id
              IN (/\ b \in DOMAIN boards
                  /\ b \in DOMAIN active_connections'
                  /\ Contains(active_connections'[b], websocket))
                    => IsMember(boards[b], request'.user)]_vars

\* C21: two create_card calls on one list, or two create_list calls on one
\* board, none of them given a position, interleave between the read of the
\* last position and the insert, and the two siblings are stored at the same
\* position.  Each call reads a position above every sibling stored at its
\* read, and its insert stores the position it read, whatever was inserted in
\* between: nothing holds the collection from the read to the insert.
AppendOps == {"create_list", "create_card"}

SiblingsOf(req) ==
    IF req.op = "create_list"
    THEN Positions(lists, ListsOf(req.id))
    ELSE Positions(cards, CardsOf(req.id))

C21_InsertStoresThePositionRead ==
    [][/\ Len(calls') = Len(calls) + 1
          => LET call == calls'[Len(calls')]
             IN (call.req.op \in AppendOps /\ call.req.data.position = None)
                   => \A p \in SiblingsOf(call.req) : call.doc.position > p
       /\ \A i \in 1..Len(calls) :
             (/\ Len(calls') = Len(calls)
              /\ calls[i].req.op \in AppendOps
              /\ calls[i].pc = "write"
              /\ calls'[i].pc # "write")
                => IF calls[i].req.op = "create_list"
                   THEN /\ Len(lists') = Len(lists) + 1
                        /\ lists'[Len(lists')].position = calls[i].doc.position
                   ELSE /\ Len(cards') = Len(cards) + 1
                        /\ cards'[Len(cards')].position = calls[i].doc.position]_vars

\* two lists of one board and two cards of one list at the same position, and
\* the two calls that made the cards have returned
C21_Witness ==
    /\ calls = <<>>
    /\ request.op = "create_card" /\ response.status = 200
    /\ request.data.position = None
    /\ \E l1, l2 \in DOMAIN lists :
          /\ l1 < l2
          /\ lists[l1].board_id = lists[l2].board_id
          /\ lists[l1].position = lists[l2].position
    /\ \E c1, c2 \in DOMAIN cards :
          /\ c1 < c2
          /\ cards[c1].list_id = cards[c2].list_id
          /\ cards[c1].position = cards[c2].position

====
